---- MODULE Spec2Model ----
(***************************************************************************)
(* State-machine model of the ArchDiagram component                        *)
(* (src/arch_diagram.jsx): the static LAYERS / LANG_COLORS data, the two   *)
(* useState hooks (active, hoveredLayer), the render function and the      *)
(* three event handlers (node onClick, layer onMouseEnter / onMouseLeave). *)
(*                                                                         *)
(* Strings that the code only copies are TLA+ strings.  Language tags are  *)
(* sequences of one-character strings because the code transforms them     *)
(* (toUpperCase).  Template literals such as `${layer.color}15` are the    *)
(* pair <<layer.color, "15">>.  Two non-ASCII characters of the source are *)
(* transliterated: the em dash in the syslog description is "--" and the   *)
(* triangle in front of the placeholder prompt is ">".                     *)
(* Array indices are 1-based here; the code's li is i - 1.                 *)
(***************************************************************************)
EXTENDS Naturals, Sequences, FiniteSets, TLC

VARIABLES
    layers,         \* the module-level LAYERS array (never assigned by the code)
    active,         \* useState hook: id of the selected node, or None
    hoveredLayer,   \* useState hook: id of the hovered layer, or None
    view,           \* the tree returned by the last render (closures included)
    events          \* history: the last two events handled, oldest first

vars == <<layers, active, hoveredLayer, view, events>>

\* JavaScript null, and undefined (a record, as it is compared with objects).
None == "null"
Undefined == [undefined |-> TRUE]

-----------------------------------------------------------------------------
(* Static data *)

Python == <<"P", "y", "t", "h", "o", "n">>
Go == <<"G", "o">>
Rust == <<"R", "u", "s", "t">>

Node(id, label, lang, desc) ==
    [id |-> id, label |-> label, lang |-> lang, desc |-> desc]

SourcesLayer ==
    [id |-> "sources", label |-> "DATA SOURCES", color |-> "#00ff9d",
     nodes |-> <<
        Node("syslog", "Syslog UDP/TCP", Python,
             "RFC 3164/5424 listener. Asyncio datagram endpoint -- zero-copy reads, no threads."),
        Node("cloudtrail", "AWS CloudTrail", Python,
             "S3 poller with watermark tracking. Gzip decompression, paginated list_objects_v2."),
        Node("webhook", "Webhook / HTTP", Python,
             "FastAPI receiver for EDR, SaaS, and third-party security tools pushing events."),
        Node("goagent", "Go Collector Agent", Go,
             "Deployed on customer infra. Goroutines + channels for high-throughput local collection, gRPC egress.")
     >>]

IngestLayer ==
    [id |-> "ingest", label |-> "INGESTION LAYER", color |-> "#00cfff",
     nodes |-> <<
        Node("queue", "Async Event Queue", Python,
             "asyncio.Queue (maxsize=10k). Backpressure-aware. Buffers bursts between sources and consumers."),
        Node("parser", "Rust Log Parser", Rust,
             "Parses CEF, LEEF, JSON, syslog at wire rate. Memory-safe handling of untrusted input. Emits structured records.")
     >>]

ValidationLayer ==
    [id |-> "validation", label |-> "SCHEMA & VALIDATION", color |-> "#ff9d00",
     nodes |-> <<
        Node("normalizer", "Normalizer", Python,
             "Maps parsed fields to NormalizedEvent schema (ECS-inspired). Pydantic validation, timestamp normalization."),
        Node("registry", "Schema Registry", Python,
             "Per-source field requirements. Quarantines malformed events. Tracks field coverage over time.")
     >>]

SinkLayer ==
    [id |-> "sink", label |-> "SINK & OBSERVABILITY", color |-> "#ff4d8f",
     nodes |-> <<
        Node("filesink", "File Sink (NDJSON)", Python,
             "MVP sink: batched writes to newline-delimited JSON. Rotate to S3 or Kafka when volume justifies it."),
        Node("monitor", "Pipeline Monitor", Python,
             "Tracks throughput per source. Fires alerts on data gaps (default: 5min silence = ALERT). Prometheus-ready.")
     >>]

\* Variant: the second node of the ingest layer reuses the id "queue".
LAYERS_DuplicateId ==
    <<SourcesLayer, [IngestLayer EXCEPT !.nodes[2].id = "queue"],
      ValidationLayer, SinkLayer>>

LAYERS == <<SourcesLayer, IngestLayer, ValidationLayer, SinkLayer>>

\* Variant: the style table has no entry for Rust.
LANG_COLORS_NoRust ==
    (Python :> [bg |-> "#1a2a1a", border |-> "#00ff9d", text |-> "#00ff9d"]) @@
    (Go     :> [bg |-> "#1a1f2a", border |-> "#00cfff", text |-> "#00cfff"])

LANG_COLORS ==
    (Python :> [bg |-> "#1a2a1a", border |-> "#00ff9d", text |-> "#00ff9d"]) @@
    (Go     :> [bg |-> "#1a1f2a", border |-> "#00cfff", text |-> "#00cfff"]) @@
    (Rust   :> [bg |-> "#2a1a1a", border |-> "#ff6b35", text |-> "#ff6b35"])

-----------------------------------------------------------------------------
(* JavaScript built-ins used by the component *)

LowerCaseLetters ==
    <<"a", "b", "c", "d", "e", "f", "g", "h", "i", "j", "k", "l", "m",
      "n", "o", "p", "q", "r", "s", "t", "u", "v", "w", "x", "y", "z">>

UpperCaseLetters ==
    <<"A", "B", "C", "D", "E", "F", "G", "H", "I", "J", "K", "L", "M",
      "N", "O", "P", "Q", "R", "S", "T", "U", "V", "W", "X", "Y", "Z">>

\* The upper-case letter of every lower-case letter.
UpperCaseOf ==
    [c \in {LowerCaseLetters[k] : k \in DOMAIN LowerCaseLetters} |->
        UpperCaseLetters[CHOOSE k \in DOMAIN LowerCaseLetters : LowerCaseLetters[k] = c]]

\* One character of String.prototype.toUpperCase: a lower-case letter is
\* replaced by its upper-case letter, any other character is kept.
upperChar(c) == IF c \in DOMAIN UpperCaseOf THEN UpperCaseOf[c] ELSE c

\* Variant: the tag is displayed as written.
toUpperCaseUnchanged(s) == s

\* String.prototype.toUpperCase, character by character.
toUpperCase(s) == [k \in DOMAIN s |-> upperChar(s[k])]

\* obj[key]: property read, undefined when the object has no such key.
Get(obj, key) == IF key \in DOMAIN obj THEN obj[key] ELSE Undefined

RECURSIVE flatMapNodes(_)
\* LAYERS.flatMap(l => l.nodes)
flatMapNodes(ls) ==
    IF ls = <<>> THEN <<>> ELSE Head(ls).nodes \o flatMapNodes(Tail(ls))

RECURSIVE find(_, _)
\* Array.prototype.find with the predicate n => n.id === id: the first
\* element whose id matches, undefined when there is none.
find(ns, id) ==
    IF ns = <<>> THEN Undefined
    ELSE IF Head(ns).id = id THEN Head(ns)
    ELSE find(Tail(ns), id)

-----------------------------------------------------------------------------
(* render: the body of ArchDiagram, as a function of the data and the hooks *)

\* Variant: a node counts as active whenever some node is selected.
isActiveWhenAnySelected(a, node) == a # None

\* const isActive = active === node.id
isActive(a, node) == a = node.id

\* Variant: a layer counts as hovered whenever some layer is hovered.
isHoveredWhenAnyHovered(h, layer) == h # None

\* hoveredLayer === layer.id
isHovered(h, layer) == h = layer.id

\* Variant: the arrow test is off by one (li < LAYERS.length).
showArrowAfterEvery(li, ls) == li < Len(ls)

\* li < LAYERS.length - 1, with li the 0-based index of the layer
showArrow(li, ls) == li < Len(ls) - 1

\* const activeNode = LAYERS.flatMap(l => l.nodes).find(n => n.id === active)
activeNode(a, ls) == find(flatMapNodes(ls), a)

\* The <button> of one node: its key, the values its onClick closure
\* captures (isActive, id), its style and its language badge.
renderNode(layer, node, a) ==
    LET lc == Get(LANG_COLORS, node.lang)
        act == isActive(a, node)
    IN  [id         |-> node.id,
         isActive   |-> act,
         background |-> IF act THEN <<layer.color, "15">> ELSE <<"rgba(255,255,255,0.02)">>,
         border     |-> IF act THEN layer.color ELSE "rgba(255,255,255,0.08)",
         boxShadow  |-> IF act THEN <<"0 0 20px", layer.color, "20">> ELSE <<"none">>,
         transform  |-> IF act THEN "translateY(-1px)" ELSE "none",
         labelColor |-> IF act THEN "#fff" ELSE "#b0c4d4",
         label      |-> node.label,
         badge      |-> [text       |-> toUpperCase(node.lang),
                         color      |-> lc.text,
                         background |-> lc.bg,
                         border     |-> <<lc.border, "40">>]]

\* One element of LAYERS.map((layer, li) => ...): the layer box, the id its
\* onMouseEnter closure captures, its nodes and the arrow below it.
renderLayer(ls, i, a, h) ==
    LET layer == ls[i]
        hov == isHovered(h, layer)
    IN  [id         |-> layer.id,
         border     |-> IF hov THEN layer.color ELSE "rgba(255,255,255,0.06)",
         background |-> IF hov THEN <<layer.color, "08">> ELSE <<"rgba(255,255,255,0.01)">>,
         label      |-> layer.label,
         counter    |-> <<i, Len(ls)>>,
         nodes      |-> [j \in DOMAIN layer.nodes |-> renderNode(layer, layer.nodes[j], a)],
         arrow      |-> showArrow(i - 1, ls)]

\* The detail panel: activeNode ? <label, badge, desc> : <placeholder>
renderDetail(a, ls) ==
    LET n == activeNode(a, ls)
    IN  IF n # Undefined
        THEN [kind  |-> "node",
              label |-> n.label,
              badge |-> [text       |-> toUpperCase(n.lang),
                         color      |-> LANG_COLORS[n.lang].text,
                         background |-> LANG_COLORS[n.lang].bg,
                         border     |-> <<LANG_COLORS[n.lang].border, "50">>],
              desc  |-> n.desc]
        ELSE [kind |-> "placeholder", text |-> "> SELECT A NODE TO INSPECT"]

\* lc.text with lc undefined is a TypeError: the render throws exactly when
\* some node's language tag has no entry in LANG_COLORS.
renderThrows(ls) ==
    \E i \in DOMAIN ls : \E j \in DOMAIN ls[i].nodes :
        Get(LANG_COLORS, ls[i].nodes[j].lang) = Undefined

\* What is on screen after a render that threw: nothing (no error boundary).
Crashed == [crashed |-> TRUE, layers |-> <<>>, detail |-> [kind |-> "none"]]

render(a, h, ls) ==
    IF renderThrows(ls) THEN Crashed
    ELSE [crashed |-> FALSE,
          layers  |-> [i \in DOMAIN ls |-> renderLayer(ls, i, a, h)],
          detail  |-> renderDetail(a, ls)]

-----------------------------------------------------------------------------
(* Event handlers *)

\* Variant: the selection hook starts at a node id.
InitialActiveParser == "parser"

\* useState(null), twice
InitialActive == None
InitialHoveredLayer == None

\* Variant: a click always selects (no toggle).
onClickAlwaysSelects(capturedIsActive, nodeId) == nodeId

\* onClick={() => setActive(isActive ? null : node.id)}: the value passed to
\* setActive, from the isActive and node.id captured by the closure.
onClick(capturedIsActive, nodeId) == IF capturedIsActive THEN None ELSE nodeId

\* onMouseEnter={() => setHoveredLayer(layer.id)}
onMouseEnter(prevHovered, layerId) == layerId

\* Variant: leaving a layer clears the hover only if that layer was hovered.
onMouseLeaveOnlyOwn(prevHovered, layerId) ==
    IF prevHovered = layerId THEN None ELSE prevHovered

\* onMouseLeave={() => setHoveredLayer(null)}
onMouseLeave(prevHovered, layerId) == None

\* A handled event with the hooks as they were when it arrived; captured is
\* the isActive of the closure that handled a click (FALSE for other events).
Event(kind, i, j, id) ==
    [kind |-> kind, layer |-> i, node |-> j, id |-> id,
     prevActive |-> active, prevHovered |-> hoveredLayer, captured |-> FALSE]

\* The history keeps the previous event and the one just handled.
Push(es, e) == <<es[Len(es)], e>>

Mount == [kind |-> "mount", layer |-> 0, node |-> 0, id |-> None,
          prevActive |-> None, prevHovered |-> None, captured |-> FALSE]

Init ==
    /\ layers = LAYERS
    /\ active = InitialActive
    /\ hoveredLayer = InitialHoveredLayer
    /\ view = render(InitialActive, InitialHoveredLayer, LAYERS)
    /\ events = <<Mount>>

\* Variant: the click handler also resets the hover hook.
ClickNodeClearsHover(i, j) ==
    /\ ~view.crashed
    /\ i \in DOMAIN view.layers
    /\ j \in DOMAIN view.layers[i].nodes
    /\ LET btn == view.layers[i].nodes[j]
       IN  /\ active' = onClick(btn.isActive, btn.id)
           /\ events' = Push(events, [Event("click", i, j, btn.id)
                                          EXCEPT !.captured = btn.isActive])
    /\ hoveredLayer' = None
    /\ UNCHANGED layers
    /\ view' = render(active', hoveredLayer', layers')

\* Variant: the click updates the hook but the tree is not rendered again,
\* so the buttons keep the closures of the previous render.
ClickNodeWithoutRender(i, j) ==
    /\ ~view.crashed
    /\ i \in DOMAIN view.layers
    /\ j \in DOMAIN view.layers[i].nodes
    /\ LET btn == view.layers[i].nodes[j]
       IN  /\ active' = onClick(btn.isActive, btn.id)
           /\ events' = Push(events, [Event("click", i, j, btn.id)
                                          EXCEPT !.captured = btn.isActive])
    /\ UNCHANGED <<layers, hoveredLayer, view>>

\* A click on the button rendered at position j of layer i.
ClickNode(i, j) ==
    /\ ~view.crashed
    /\ i \in DOMAIN view.layers
    /\ j \in DOMAIN view.layers[i].nodes
    /\ LET btn == view.layers[i].nodes[j]
       IN  /\ active' = onClick(btn.isActive, btn.id)
           /\ events' = Push(events, [Event("click", i, j, btn.id)
                                          EXCEPT !.captured = btn.isActive])
    /\ UNCHANGED <<layers, hoveredLayer>>
    /\ view' = render(active', hoveredLayer', layers')

\* Variant: the enter handler stores the layer's label instead of its id.
MouseEnterStoresLabel(i) ==
    /\ ~view.crashed
    /\ i \in DOMAIN view.layers
    /\ hoveredLayer' = view.layers[i].label
    /\ events' = Push(events, Event("enter", i, 0, view.layers[i].id))
    /\ UNCHANGED <<layers, active>>
    /\ view' = render(active', hoveredLayer', layers')

\* The pointer enters the box of layer i.
MouseEnter(i) ==
    /\ ~view.crashed
    /\ i \in DOMAIN view.layers
    /\ hoveredLayer' = onMouseEnter(hoveredLayer, view.layers[i].id)
    /\ events' = Push(events, Event("enter", i, 0, view.layers[i].id))
    /\ UNCHANGED <<layers, active>>
    /\ view' = render(active', hoveredLayer', layers')

\* The pointer leaves the box of layer i.
MouseLeave(i) ==
    /\ ~view.crashed
    /\ i \in DOMAIN view.layers
    /\ hoveredLayer' = onMouseLeave(hoveredLayer, view.layers[i].id)
    /\ events' = Push(events, Event("leave", i, 0, view.layers[i].id))
    /\ UNCHANGED <<layers, active>>
    /\ view' = render(active', hoveredLayer', layers')

\* The page is reloaded: the component is mounted afresh.
Reload ==
    /\ active' = InitialActive
    /\ hoveredLayer' = InitialHoveredLayer
    /\ events' = Push(events, [Mount EXCEPT !.prevActive = active,
                                             !.prevHovered = hoveredLayer])
    /\ UNCHANGED layers
    /\ view' = render(active', hoveredLayer', layers')

Next ==
    \/ \E i \in 1..Len(LAYERS) : \E j \in 1..Len(LAYERS[i].nodes) : ClickNode(i, j)
    \/ \E i \in 1..Len(LAYERS) : MouseEnter(i)
    \/ \E i \in 1..Len(LAYERS) : MouseLeave(i)
    \/ Reload

Spec == Init /\ [][Next]_vars

-----------------------------------------------------------------------------
(* Vocabulary of the properties *)

LastEvent == events[Len(events)]
PrevEvent == events[1]
HasPrev == Len(events) > 1

IsClick(e) == e.kind = "click"
IsHover(e) == e.kind \in {"enter", "leave"}

\* The declared node / layer an event was aimed at, by its position.
NodeAt(e) == layers[e.layer].nodes[e.node]
LayerAt(e) == layers[e.layer]

\* Positions <<i, j>> of the declared nodes and of the rendered buttons.
NodePositions ==
    UNION {{<<i, j>> : j \in DOMAIN layers[i].nodes} : i \in DOMAIN layers}
ButtonPositions ==
    UNION {{<<i, j>> : j \in DOMAIN view.layers[i].nodes} : i \in DOMAIN view.layers}
ButtonOf(p) == view.layers[p[1]].nodes[p[2]]

Placeholder == [kind |-> "placeholder", text |-> "> SELECT A NODE TO INSPECT"]

\* A button drawn with every highlight of the selected node / with none.
NodeHighlighted(btn, color) ==
    /\ btn.background = <<color, "15">>
    /\ btn.border = color
    /\ btn.boxShadow = <<"0 0 20px", color, "20">>
    /\ btn.transform = "translateY(-1px)"
    /\ btn.labelColor = "#fff"
NodePlain(btn) ==
    /\ btn.background = <<"rgba(255,255,255,0.02)">>
    /\ btn.border = "rgba(255,255,255,0.08)"
    /\ btn.boxShadow = <<"none">>
    /\ btn.transform = "none"
    /\ btn.labelColor = "#b0c4d4"

\* A layer box drawn with the hover highlight / without it.
LayerHighlighted(box, color) ==
    /\ box.border = color
    /\ box.background = <<color, "08">>
LayerPlain(box) ==
    /\ box.border = "rgba(255,255,255,0.06)"
    /\ box.background = <<"rgba(255,255,255,0.01)">>

-----------------------------------------------------------------------------
(* Properties *)

\* C1: a click on node N selects N when N was not the selected node and
\* clears the selection when N was the selected node; two consecutive clicks
\* on N, starting with N unselected, end with no node selected.
C1_ClickToggles ==
    /\ IsClick(LastEvent) =>
          active = (IF LastEvent.prevActive = NodeAt(LastEvent).id
                    THEN None ELSE NodeAt(LastEvent).id)
    /\ ( /\ HasPrev /\ IsClick(PrevEvent) /\ IsClick(LastEvent)
         /\ PrevEvent.layer = LastEvent.layer /\ PrevEvent.node = LastEvent.node
         /\ PrevEvent.prevActive # NodeAt(PrevEvent).id )
       => active = None

C1_Witness ==
    /\ HasPrev /\ IsClick(PrevEvent) /\ IsClick(LastEvent)
    /\ PrevEvent.layer = LastEvent.layer /\ PrevEvent.node = LastEvent.node
    /\ PrevEvent.prevActive \notin {None, NodeAt(PrevEvent).id}
    /\ LastEvent.prevActive = NodeAt(LastEvent).id
    /\ active = None

\* C2: at most one node is active, and clicking N1 (not selected) and then a
\* different node N2 leaves N2 active and N1 inactive.
C2_SelectionExclusive ==
    /\ Cardinality({p \in ButtonPositions : ButtonOf(p).isActive}) <= 1
    /\ Cardinality({p \in NodePositions : layers[p[1]].nodes[p[2]].id = active}) <= 1
    /\ ( /\ HasPrev /\ IsClick(PrevEvent) /\ IsClick(LastEvent)
         /\ <<PrevEvent.layer, PrevEvent.node>> # <<LastEvent.layer, LastEvent.node>>
         /\ PrevEvent.prevActive # NodeAt(PrevEvent).id )
       => /\ active = NodeAt(LastEvent).id
          /\ active # NodeAt(PrevEvent).id
          /\ ButtonOf(<<LastEvent.layer, LastEvent.node>>).isActive
          /\ ~ButtonOf(<<PrevEvent.layer, PrevEvent.node>>).isActive

C2_Witness ==
    /\ HasPrev /\ IsClick(PrevEvent) /\ IsClick(LastEvent)
    /\ NodeAt(PrevEvent).id = "parser" /\ NodeAt(LastEvent).id = "queue"
    /\ PrevEvent.prevActive # "parser"
    /\ LastEvent.prevActive = "parser"
    /\ active = "queue"

\* C3: the hovered layer is the target of the most recent enter/leave event
\* if that was an enter and none if it was a leave, whatever was hovered
\* before; clicks in between do not matter.
C3_HoverTracksLastEvent ==
    LET tracks(e) == /\ e.kind = "enter" => hoveredLayer = LayerAt(e).id
                     /\ e.kind = "leave" => hoveredLayer = None
    IN  /\ IsHover(LastEvent) => tracks(LastEvent)
        /\ (HasPrev /\ IsClick(LastEvent) /\ IsHover(PrevEvent)) => tracks(PrevEvent)

C3_Witness ==
    /\ HasPrev /\ PrevEvent.kind = "enter" /\ LastEvent.kind = "leave"
    /\ LastEvent.prevHovered = LayerAt(PrevEvent).id
    /\ LastEvent.prevHovered # LayerAt(LastEvent).id
    /\ hoveredLayer = None

\* C4: the detail panel is determined by the selected node id: the
\* placeholder when nothing is selected, otherwise the label, the
\* upper-cased language tag and the description of the selected node.
C4_DetailOfSelection ==
    LET upper == (Python :> <<"P", "Y", "T", "H", "O", "N">>) @@
                 (Go :> <<"G", "O">>) @@
                 (Rust :> <<"R", "U", "S", "T">>)
    IN  /\ active = None => view.detail = Placeholder
        /\ \A p \in NodePositions :
              LET n == layers[p[1]].nodes[p[2]]
              IN  n.id = active =>
                     /\ view.detail.kind = "node"
                     /\ view.detail.label = n.label
                     /\ view.detail.badge.text = upper[n.lang]
                     /\ view.detail.desc = n.desc
        /\ active = "parser" =>
              /\ view.detail.label = "Rust Log Parser"
              /\ view.detail.badge.text = <<"R", "U", "S", "T">>
              /\ view.detail.desc = "Parses CEF, LEEF, JSON, syslog at wire rate. Memory-safe handling of untrusted input. Emits structured records."

C4_Witness ==
    /\ IsClick(LastEvent) /\ NodeAt(LastEvent).id = "parser"
    /\ active = "parser"
    /\ hoveredLayer = "sink"
    /\ view.detail.kind = "node"
    /\ view.detail.badge.text = <<"R", "U", "S", "T">>

\* C5: right after the component is mounted (first render or reload) nothing
\* is selected, nothing is hovered, the detail panel shows the placeholder
\* and no node and no layer is highlighted.
C5_InitialState ==
    LastEvent.kind = "mount" =>
        /\ active = None
        /\ hoveredLayer = None
        /\ view.detail = Placeholder
        /\ ButtonPositions # {}
        /\ \A p \in ButtonPositions : NodePlain(ButtonOf(p))
        /\ \A i \in DOMAIN view.layers : LayerPlain(view.layers[i])

C5_Witness ==
    /\ HasPrev /\ LastEvent.kind = "mount"
    /\ LastEvent.prevActive # None /\ LastEvent.prevHovered # None
    /\ view.detail = Placeholder

\* C6: node ids are unique across all layers, so the scan of the flattened
\* node sequence has exactly one match for the selected id, and the node the
\* lookup returns is the node that was clicked.
C6_UniqueNodeIds ==
    LET flat == flatMapNodes(layers)
    IN  /\ \A p, q \in NodePositions :
              p # q => layers[p[1]].nodes[p[2]].id # layers[q[1]].nodes[q[2]].id
        /\ active # None =>
              Cardinality({k \in DOMAIN flat : flat[k].id = active}) = 1
        /\ (IsClick(LastEvent) /\ active # None) =>
              /\ activeNode(active, layers) = NodeAt(LastEvent)
              /\ view.detail.kind = "node"
              /\ view.detail.label = NodeAt(LastEvent).label
              /\ view.detail.desc = NodeAt(LastEvent).desc

C6_Witness ==
    /\ IsClick(LastEvent) /\ LastEvent.layer = 2 /\ LastEvent.node = 2
    /\ active = "parser"
    /\ view.detail.label = "Rust Log Parser"

\* C7: every language tag used by a node has an entry in LANG_COLORS, so
\* every badge on screen has its three colours and no render fails.
C7_EveryTagHasStyle ==
    LET isColor(c) == c \in {"#00ff9d", "#00cfff", "#ff6b35",
                             "#1a2a1a", "#1a1f2a", "#2a1a1a"}
        styled(badge) == /\ isColor(badge.color)
                         /\ isColor(badge.background)
                         /\ isColor(badge.border[1])
    IN  /\ \A p \in NodePositions :
              layers[p[1]].nodes[p[2]].lang \in DOMAIN LANG_COLORS
        /\ ~view.crashed
        /\ Cardinality(ButtonPositions) = Cardinality(NodePositions)
        /\ \A p \in ButtonPositions : styled(ButtonOf(p).badge)
        /\ view.detail.kind = "node" => styled(view.detail.badge)

C7_Witness ==
    /\ IsClick(LastEvent)
    /\ active = "parser"
    /\ ~view.crashed
    /\ ButtonOf(<<2, 2>>).badge.color = "#ff6b35"
    /\ view.detail.badge.color = "#ff6b35"
    /\ view.detail.badge.border = <<"#ff6b35", "50">>

\* C8: a node click leaves the hovered layer as it was, a layer enter or
\* leave leaves the selected node as it was, and no event changes the
\* layer and node data.
C8_IndependentFields ==
    /\ IsClick(LastEvent) => hoveredLayer = LastEvent.prevHovered
    /\ IsHover(LastEvent) => active = LastEvent.prevActive
    /\ layers = LAYERS

C8_Witness ==
    /\ HasPrev /\ IsClick(PrevEvent) /\ LastEvent.kind = "enter"
    /\ PrevEvent.prevHovered # None
    /\ PrevEvent.prevActive # LastEvent.prevActive
    /\ LastEvent.prevHovered = PrevEvent.prevHovered
    /\ hoveredLayer # LastEvent.prevHovered
    /\ active = LastEvent.prevActive /\ active # None

\* C9: a node is highlighted exactly when its id is the selected id and a
\* layer exactly when its id is the hovered id; so at most one node and one
\* layer are highlighted, the highlighted node is the one in the detail
\* panel, and a node's highlight is independent of the hover.
C9_EmphasisFollowsState ==
    /\ \A p \in ButtonPositions :
          LET btn == ButtonOf(p)
              color == layers[p[1]].color
          IN  /\ btn.id = layers[p[1]].nodes[p[2]].id
              /\ IF btn.id = active
                 THEN /\ NodeHighlighted(btn, color)
                      /\ ~NodePlain(btn)
                      /\ view.detail.kind = "node"
                      /\ view.detail.label = btn.label
                 ELSE NodePlain(btn) /\ ~NodeHighlighted(btn, color)
    /\ \A i \in DOMAIN view.layers :
          LET box == view.layers[i]
          IN  /\ box.id = layers[i].id
              /\ IF box.id = hoveredLayer
                 THEN LayerHighlighted(box, layers[i].color) /\ ~LayerPlain(box)
                 ELSE LayerPlain(box) /\ ~LayerHighlighted(box, layers[i].color)
    /\ Cardinality({p \in ButtonPositions : ~NodePlain(ButtonOf(p))}) <= 1
    /\ Cardinality({i \in DOMAIN view.layers : ~LayerPlain(view.layers[i])}) <= 1

C9_Witness ==
    /\ active = "parser" /\ hoveredLayer = "sources"
    /\ NodeHighlighted(ButtonOf(<<2, 2>>), "#00cfff")
    /\ LayerPlain(view.layers[2])
    /\ LayerHighlighted(view.layers[1], "#00ff9d")
    /\ NodePlain(ButtonOf(<<1, 1>>))

\* C10: the layers are drawn in declared order and an arrow follows layer i
\* exactly when it is not the last one: n layers, n - 1 arrows.
C10_OrderAndArrows ==
    /\ Len(view.layers) = Len(layers)
    /\ \A i \in DOMAIN view.layers :
          /\ view.layers[i].id = layers[i].id
          /\ view.layers[i].label = layers[i].label
          /\ view.layers[i].arrow <=> (i # Len(layers))
    /\ Cardinality({i \in DOMAIN view.layers : view.layers[i].arrow}) = Len(layers) - 1

C10_Witness ==
    /\ ~view.crashed
    /\ LastEvent.kind # "mount"
    /\ <<view.layers[1].id, view.layers[2].id, view.layers[3].id, view.layers[4].id>>
          = <<"sources", "ingest", "validation", "sink">>
    /\ view.layers[3].arrow
    /\ ~view.layers[4].arrow

\* C11: the selected node id is none or the id of a declared node, the
\* hovered layer id is none or the id of a declared layer, and the active
\* node lookup finds nothing only when nothing is selected.
C11_IdsAreDeclared ==
    LET nodeIds == {layers[p[1]].nodes[p[2]].id : p \in NodePositions}
        layerIds == {layers[i].id : i \in DOMAIN layers}
    IN  /\ active \in {None} \cup nodeIds
        /\ hoveredLayer \in {None} \cup layerIds
        /\ None \notin nodeIds \cup layerIds
        /\ (activeNode(active, layers) = Undefined) <=> (active = None)
        /\ (view.detail = Placeholder) <=> (active = None)

C11_Witness ==
    /\ HasPrev /\ PrevEvent.kind = "enter" /\ IsClick(LastEvent)
    /\ active = "monitor"
    /\ hoveredLayer = "ingest"
    /\ activeNode(active, layers) = NodeAt(LastEvent)
    /\ view.detail.kind = "node"

====
